---- MODULE Spec2Model ----
(***************************************************************************)
(* A model of the generation client (WatsonxAI), its deterministic stub    *)
(* responder, and the claim extractor (ClaimExtractor) of the prior-art    *)
(* analysis backend.                                                       *)
(*                                                                         *)
(* Python values are modelled structurally: a str is a sequence of         *)
(* one-character strings, and every other value is a tagged record         *)
(* [t |-> tag, v |-> payload].  The string methods the code uses (lower,   *)
(* strip, replace, count, in, slicing), json.dumps and json.loads are      *)
(* operators over these, so that a reply really is serialised by the stub  *)
(* and parsed back by its caller.                                          *)
(***************************************************************************)
EXTENDS Integers, Sequences, FiniteSets, TLC

----------------------------------------------------------------------------
(* Characters *)

\* A lone surrogate code point (U+D800): a legal element of a Python str that
\* str.encode() cannot encode as UTF-8.
SURROGATE == "<U+D800>"
\* LATIN CAPITAL LETTER I WITH DOT ABOVE (U+0130), whose lowercase form is the
\* two code points "i" and COMBINING DOT ABOVE (U+0307).
CAP_I_DOT == "<U+0130>"
DOT_ABOVE == "<U+0307>"
\* GRAVE ACCENT (U+0060), the character of a Markdown code fence; the module's
\* string syntax has no literal for it.
BACKTICK == "<U+0060>"

UpperAZ ==
    <<"A","B","C","D","E","F","G","H","I","J","K","L","M",
      "N","O","P","Q","R","S","T","U","V","W","X","Y","Z">>
LowerAZ ==
    <<"a","b","c","d","e","f","g","h","i","j","k","l","m",
      "n","o","p","q","r","s","t","u","v","w","x","y","z">>
Digits == <<"0","1","2","3","4","5","6","7","8","9">>

\* The printable ASCII characters in code point order, from " " (32) to "~" (126).
Ascii ==
    <<" ","!","\"","#","$","%","&","'","(",")","*","+",",","-",".","/",
      "0","1","2","3","4","5","6","7","8","9",":",";","<","=",">","?",
      "@","A","B","C","D","E","F","G","H","I","J","K","L","M","N","O",
      "P","Q","R","S","T","U","V","W","X","Y","Z","[","\\","]","^","_",
      BACKTICK,"a","b","c","d","e","f","g","h","i","j","k","l","m","n","o",
      "p","q","r","s","t","u","v","w","x","y","z","{","|","}","~">>

Range(f) == {f[i] : i \in DOMAIN f}

\* ord(c) of a printable ASCII character.
Ord(c) == 31 + (CHOOSE i \in DOMAIN Ascii : Ascii[i] = c)

\* str.lower() of one character, as a str: A-Z map to a-z, U+0130 expands to
\* two code points, every other character of the model is unchanged.
LowerTable ==
    [c \in Range(UpperAZ) |-> <<LowerAZ[CHOOSE i \in 1..26 : UpperAZ[i] = c]>>]
LowerChar(c) ==
    IF c \in DOMAIN LowerTable THEN LowerTable[c]
    ELSE IF c = CAP_I_DOT THEN <<"i", DOT_ABOVE>>
    ELSE <<c>>

\* The characters str.strip() removes (those of them the model's texts use).
PyWhitespace == {" ", "\t", "\n", "\r", "\f"}
\* The whitespace json.loads skips around values.
JsonWhitespace == {" ", "\t", "\n", "\r"}

----------------------------------------------------------------------------
(* str operations *)

Min(S) == CHOOSE x \in S : \A y \in S : x <= y

\* s[a:b] for 0 <= a, in Python's 0-based half-open indexing.
Slice(s, a, b) ==
    LET hi == IF b < Len(s) THEN b ELSE Len(s)
    IN  IF a >= hi THEN << >> ELSE SubSeq(s, a + 1, hi)

\* s.lower(): character by character; only U+0130 changes the length.
RECURSIVE Lower(_)
Lower(s) ==
    IF \E i \in DOMAIN s : s[i] = CAP_I_DOT
    THEN LET k == Min({i \in DOMAIN s : s[i] = CAP_I_DOT})
         IN  Lower(SubSeq(s, 1, k - 1)) \o LowerChar(CAP_I_DOT)
                 \o Lower(SubSeq(s, k + 1, Len(s)))
    ELSE [i \in DOMAIN s |-> LowerChar(s[i])[1]]

\* Whether pat occurs in s at 1-based position i.
MatchAt(s, pat, i) ==
    /\ i + Len(pat) - 1 <= Len(s)
    /\ \A j \in 1..Len(pat) : s[i + j - 1] = pat[j]

\* The positions where pat occurs in s.
Matches(s, pat) == {i \in 1..(Len(s) - Len(pat) + 1) : MatchAt(s, pat, i)}

\* pat in s
Contains(s, pat) == \E i \in 1..(Len(s) - Len(pat) + 1) : MatchAt(s, pat, i)

\* s.index(pat), 0-based, for pat in s.
Index(s, pat) == Min(Matches(s, pat)) - 1

\* The non-overlapping occurrences of pat that a left-to-right scan from
\* position p finds, as str.count and str.replace scan (pat non-empty).
RECURSIVE ScanFrom(_, _, _)
ScanFrom(M, n, p) ==
    LET rest == {i \in M : i >= p}
    IN  IF rest = {} THEN {}
        ELSE LET m == Min(rest) IN {m} \cup ScanFrom(M, n, m + n)
Occurrences(s, pat) == ScanFrom(Matches(s, pat), Len(pat), 1)

\* s.count(pat)
Count(s, pat) == Cardinality(Occurrences(s, pat))

\* s.replace(pat, '')
Remove(s, pat) ==
    LET occ == Occurrences(s, pat)
        n == Len(pat)
        covered(i) == \E m \in occ : m <= i /\ i < m + n
        idx == SelectSeq([i \in DOMAIN s |-> i], LAMBDA i : ~covered(i))
    IN  IF occ = {} THEN s ELSE [j \in DOMAIN idx |-> s[idx[j]]]

\* s.strip()
RECURSIVE FirstNonSpace(_, _)
FirstNonSpace(s, i) ==
    IF i > Len(s) \/ s[i] \notin PyWhitespace THEN i ELSE FirstNonSpace(s, i + 1)
RECURSIVE LastNonSpace(_, _)
LastNonSpace(s, i) ==
    IF i < 1 \/ s[i] \notin PyWhitespace THEN i ELSE LastNonSpace(s, i - 1)
Strip(s) ==
    LET lo == FirstNonSpace(s, 1)
        hi == LastNonSpace(s, Len(s))
    IN  IF lo > hi THEN << >> ELSE SubSeq(s, lo, hi)

\* str(n) for an integer n, as f-strings and json.dumps format it.
RECURSIVE NatToStr(_)
NatToStr(n) ==
    IF n < 10 THEN <<Digits[n + 1]>> ELSE NatToStr(n \div 10) \o <<Digits[(n % 10) + 1]>>
IntToStr(n) == IF n < 0 THEN <<"-">> \o NatToStr(-n) ELSE NatToStr(n)

\* a < b for two str, by code point as Python compares them.
RECURSIVE StrLess(_, _)
StrLess(a, b) ==
    IF b = << >> THEN FALSE
    ELSE IF a = << >> THEN TRUE
    ELSE IF a[1] = b[1] THEN StrLess(Tail(a), Tail(b))
    ELSE Ord(a[1]) < Ord(b[1])

\* sorted(list(S)) for a set S of str.
RECURSIVE Sorted(_)
Sorted(S) ==
    IF S = {} THEN << >>
    ELSE LET m == CHOOSE x \in S : \A y \in S \ {x} : StrLess(x, y)
         IN  <<m>> \o Sorted(S \ {m})

\* UTF-8 encoding succeeds unless the str holds a lone surrogate.
Encodable(s) == \A i \in DOMAIN s : s[i] # SURROGATE

----------------------------------------------------------------------------
(* Python values *)

PyNone == [t |-> "none", v |-> 0]
PyBool(b) == [t |-> "bool", v |-> b]
PyInt(n) == [t |-> "int", v |-> n]
\* A finite float m * 10^(-e), e >= 0, with m not a multiple of 10 unless e = 0.
PyFloat(m, e) == [t |-> "float", v |-> <<m, e>>]
\* float('nan'), and float('inf') / float('-inf') by sign.
PyNaN == [t |-> "nan", v |-> 0]
PyInf(sign) == [t |-> "inf", v |-> sign]
PyStr(s) == [t |-> "str", v |-> s]
\* A list, as the sequence of its items.
PyList(items) == [t |-> "list", v |-> items]
\* A dict, as the sequence of its <<key, value>> pairs in insertion order.
PyDict(pairs) == [t |-> "dict", v |-> pairs]

IsStr(x) == x.t = "str"
IsList(x) == x.t = "list"
IsDict(x) == x.t = "dict"

\* key in d
DictHas(d, k) == \E i \in DOMAIN d.v : d.v[i][1] = k
\* d[key], for key in d
DictAt(d, k) == d.v[CHOOSE i \in DOMAIN d.v : d.v[i][1] = k][2]
\* d.get(key, default)
DictGet(d, k, default) == IF DictHas(d, k) THEN DictAt(d, k) ELSE default
\* The pairs of d after d[key] = value: a present key keeps its place.
DictSet(pairs, k, val) ==
    IF \E i \in DOMAIN pairs : pairs[i][1] = k
    THEN [i \in DOMAIN pairs |-> IF pairs[i][1] = k THEN <<k, val>> ELSE pairs[i]]
    ELSE Append(pairs, <<k, val>>)

\* bool(x) for the values the code tests for truth.
Truthy(x) ==
    CASE x.t = "none" -> FALSE
      [] x.t = "bool" -> x.v
      [] x.t = "int" -> x.v # 0
      [] x.t = "float" -> x.v[1] # 0
      [] x.t \in {"str", "list", "dict"} -> x.v # << >>
      [] OTHER -> TRUE

RECURSIVE Pow10(_)
Pow10(e) == IF e = 0 THEN 1 ELSE 10 * Pow10(e - 1)

\* lo <= x <= hi for a Python value x and integers lo, hi: false for a value
\* that is no number, for nan and for the infinities.
NumberWithin(x, lo, hi) ==
    CASE x.t = "int" -> lo <= x.v /\ x.v <= hi
      [] x.t = "bool" -> lo <= (IF x.v THEN 1 ELSE 0) /\ (IF x.v THEN 1 ELSE 0) <= hi
      [] x.t = "float" -> lo * Pow10(x.v[2]) <= x.v[1] /\ x.v[1] <= hi * Pow10(x.v[2])
      [] OTHER -> FALSE

----------------------------------------------------------------------------
(* json.dumps *)

\* The escape json.dumps writes for one character of a str (ensure_ascii).
JsonEscape(c) ==
    CASE c = "\"" -> <<"\\", "\"">>
      [] c = "\\" -> <<"\\", "\\">>
      [] c = "\n" -> <<"\\", "n">>
      [] c = "\r" -> <<"\\", "r">>
      [] c = "\t" -> <<"\\", "t">>
      [] c = "\f" -> <<"\\", "f">>
      [] c = SURROGATE -> <<"\\", "u", "d", "8", "0", "0">>
      [] c = CAP_I_DOT -> <<"\\", "u", "0", "1", "3", "0">>
      [] c = DOT_ABOVE -> <<"\\", "u", "0", "3", "0", "7">>
      [] OTHER -> <<c>>

\* The characters of s from the i-th on as json.dumps writes them, and the
\* closing quote: the run up to the next character that has an escape is
\* copied as it is.
RECURSIVE JsonQuoteFrom(_, _)
JsonQuoteFrom(s, i) ==
    LET escaped == {j \in i..Len(s) : JsonEscape(s[j]) # <<s[j]>>}
    IN  IF escaped = {} THEN SubSeq(s, i, Len(s)) \o <<"\"">>
        ELSE SubSeq(s, i, Min(escaped) - 1) \o JsonEscape(s[Min(escaped)])
                 \o JsonQuoteFrom(s, Min(escaped) + 1)
JsonQuote(s) == <<"\"">> \o JsonQuoteFrom(s, 1)

\* repr of a finite float m * 10^(-e).
RECURSIVE FloatRepr(_, _)
FloatRepr(m, e) ==
    IF m < 0 THEN <<"-">> \o FloatRepr(-m, e)
    ELSE IF e = 0 THEN NatToStr(m) \o <<".", "0">>
    ELSE LET frac == NatToStr(m % Pow10(e))
             pad == [i \in 1..(e - Len(frac)) |-> "0"]
         IN  NatToStr(m \div Pow10(e)) \o <<".">> \o pad \o frac

RECURSIVE JsonDumps(_), JsonDumpsItems(_, _), JsonDumpsPairs(_, _)
JsonDumps(x) ==
    CASE x.t = "none" -> <<"n", "u", "l", "l">>
      [] x.t = "bool" -> IF x.v THEN <<"t", "r", "u", "e">> ELSE <<"f", "a", "l", "s", "e">>
      [] x.t = "int" -> IntToStr(x.v)
      [] x.t = "float" -> FloatRepr(x.v[1], x.v[2])
      [] x.t = "nan" -> <<"N", "a", "N">>
      [] x.t = "inf" -> IF x.v < 0 THEN <<"-", "I", "n", "f", "i", "n", "i", "t", "y">>
                                   ELSE <<"I", "n", "f", "i", "n", "i", "t", "y">>
      [] x.t = "str" -> JsonQuote(x.v)
      [] x.t = "list" -> <<"[">> \o JsonDumpsItems(x.v, 1) \o <<"]">>
      [] x.t = "dict" -> <<"{">> \o JsonDumpsPairs(x.v, 1) \o <<"}">>
JsonDumpsItems(items, i) ==
    IF i > Len(items) THEN << >>
    ELSE (IF i > 1 THEN <<",", " ">> ELSE << >>) \o JsonDumps(items[i])
             \o JsonDumpsItems(items, i + 1)
JsonDumpsPairs(pairs, i) ==
    IF i > Len(pairs) THEN << >>
    ELSE (IF i > 1 THEN <<",", " ">> ELSE << >>) \o JsonQuote(pairs[i][1]) \o <<":", " ">>
             \o JsonDumps(pairs[i][2]) \o JsonDumpsPairs(pairs, i + 1)

----------------------------------------------------------------------------
(* Call results *)

\* What a call gives its caller: a returned value, or a raised exception.
Return(val) == [kind |-> "return", exc |-> "none", v |-> val]
Raise(e) == [kind |-> "raise", exc |-> e, v |-> PyNone]

----------------------------------------------------------------------------
(* json.loads *)

DigitSet == Range(Digits)
DigitVal(c) == (CHOOSE i \in DOMAIN Digits : Digits[i] = c) - 1

\* A parse step's result: the value and the 1-based position after it.
ParseOk(val, next) == [ok |-> TRUE, v |-> val, next |-> next]
ParseFail == [ok |-> FALSE, v |-> PyNone, next |-> 0]

CharAt(s, i, c) == i <= Len(s) /\ s[i] = c

RECURSIVE SkipWs(_, _)
SkipWs(s, i) ==
    IF i <= Len(s) /\ s[i] \in JsonWhitespace THEN SkipWs(s, i + 1) ELSE i

\* The position after the run of digits that starts at i.
RECURSIVE DigitsEnd(_, _)
DigitsEnd(s, i) ==
    IF i <= Len(s) /\ s[i] \in DigitSet THEN DigitsEnd(s, i + 1) ELSE i

\* The number the digits s[a..b-1] spell.
RECURSIVE DigitsValue(_, _, _)
DigitsValue(s, a, b) ==
    IF a >= b THEN 0 ELSE DigitsValue(s, a, b - 1) * 10 + DigitVal(s[b - 1])

\* m * 10^(-e) as a float value, e of either sign.
RECURSIVE MakeFloat(_, _)
MakeFloat(m, e) ==
    IF e < 0 THEN PyFloat(m * Pow10(-e), 0)
    ELSE IF e > 0 /\ m % 10 = 0 THEN MakeFloat(m \div 10, e - 1)
    ELSE PyFloat(m, e)

\* A number at i, by the decoder's pattern
\*   (-?(?:0|[1-9]\d*))(\.\d+)?([eE][-+]?\d+)?
\* matched group by group: the digits start at a, the integer part ends
\* before intEnd, the fraction before fracEnd, the exponent's digits start at
\* expAt and the match ends before end.  The value is an int when it has
\* neither fraction nor exponent, else a float.
NumberValue(s, neg, a, intEnd, fracEnd, expAt, end) ==
    LET hasFrac == fracEnd > intEnd
        hasExp == end > fracEnd
        fracLen == IF hasFrac THEN fracEnd - intEnd - 1 ELSE 0
        expSign == IF CharAt(s, fracEnd + 1, "-") THEN -1 ELSE 1
        exp == IF hasExp THEN expSign * DigitsValue(s, expAt, end) ELSE 0
        mant == DigitsValue(s, a, intEnd) * Pow10(fracLen)
                    + (IF hasFrac THEN DigitsValue(s, intEnd + 1, fracEnd) ELSE 0)
        m == IF neg THEN -mant ELSE mant
    IN  IF intEnd = a THEN ParseFail
        ELSE IF hasFrac \/ hasExp THEN ParseOk(MakeFloat(m, fracLen - exp), end)
        ELSE ParseOk(PyInt(m), end)
NumberExponent(s, neg, a, intEnd, fracEnd, expAt) ==
    NumberValue(s, neg, a, intEnd, fracEnd, expAt,
        IF /\ CharAt(s, fracEnd, "e") \/ CharAt(s, fracEnd, "E")
           /\ DigitsEnd(s, expAt) > expAt
        THEN DigitsEnd(s, expAt) ELSE fracEnd)
NumberFraction(s, neg, a, intEnd, fracEnd) ==
    NumberExponent(s, neg, a, intEnd, fracEnd,
        IF CharAt(s, fracEnd + 1, "-") \/ CharAt(s, fracEnd + 1, "+")
        THEN fracEnd + 2 ELSE fracEnd + 1)
NumberInteger(s, neg, a, intEnd) ==
    NumberFraction(s, neg, a, intEnd,
        IF CharAt(s, intEnd, ".") /\ DigitsEnd(s, intEnd + 1) > intEnd + 1
        THEN DigitsEnd(s, intEnd + 1) ELSE intEnd)
NumberSign(s, neg, a) ==
    NumberInteger(s, neg, a, IF CharAt(s, a, "0") THEN a + 1 ELSE DigitsEnd(s, a))
ParseNumber(s, i) ==
    NumberSign(s, CharAt(s, i, "-"), IF CharAt(s, i, "-") THEN i + 1 ELSE i)

\* The character an escape letter stands for in a JSON string.
Unescape ==
    [c \in {"\"", "\\", "/", "n", "r", "t", "f"} |->
        CASE c = "n" -> "\n" [] c = "r" -> "\r" [] c = "t" -> "\t" [] c = "f" -> "\f"
          [] OTHER -> c]

\* The str whose opening quote is before i, acc being what is decoded of
\* it so far: a run of plain characters is taken up to the next quote,
\* backslash or control character; the quote closes the str, an escape is
\* decoded, a raw control character or a bad escape is an error.  (Of the
\* \b and \uXXXX escapes the model's texts use none.)
RECURSIVE ParseStringFrom(_, _, _)
ParseStringFrom(s, i, acc) ==
    LET stops == {j \in i..Len(s) : s[j] \in {"\"", "\\", "\n", "\r", "\t", "\f"}}
        j == Min(stops)
    IN  IF stops = {} THEN ParseFail
        ELSE IF s[j] = "\"" THEN ParseOk(PyStr(acc \o SubSeq(s, i, j - 1)), j + 1)
        ELSE IF s[j] = "\\" /\ j + 1 <= Len(s) /\ s[j + 1] \in DOMAIN Unescape
             THEN ParseStringFrom(s, j + 2,
                      acc \o SubSeq(s, i, j - 1) \o <<Unescape[s[j + 1]]>>)
        ELSE ParseFail

\* The decoder's scan_once at position i, and the loops of its object and
\* array parsers: a member is a key, a colon and a value, an element is a
\* value, and after either comes a comma or the closing bracket.
RECURSIVE ParseValue(_, _), ParseMembers(_, _, _), MemberValue(_, _, _),
          MemberEnd(_, _, _, _), ParseElements(_, _, _), ElementEnd(_, _, _)
ParseValue(s, i) ==
    IF i > Len(s) THEN ParseFail
    ELSE IF s[i] = "\"" THEN ParseStringFrom(s, i + 1, << >>)
    ELSE IF s[i] = "{"
         THEN IF CharAt(s, SkipWs(s, i + 1), "}")
              THEN ParseOk(PyDict(<< >>), SkipWs(s, i + 1) + 1)
              ELSE ParseMembers(s, SkipWs(s, i + 1), << >>)
    ELSE IF s[i] = "["
         THEN IF CharAt(s, SkipWs(s, i + 1), "]")
              THEN ParseOk(PyList(<< >>), SkipWs(s, i + 1) + 1)
              ELSE ParseElements(s, SkipWs(s, i + 1), << >>)
    ELSE IF MatchAt(s, <<"n", "u", "l", "l">>, i) THEN ParseOk(PyNone, i + 4)
    ELSE IF MatchAt(s, <<"t", "r", "u", "e">>, i) THEN ParseOk(PyBool(TRUE), i + 4)
    ELSE IF MatchAt(s, <<"f", "a", "l", "s", "e">>, i) THEN ParseOk(PyBool(FALSE), i + 5)
    ELSE IF MatchAt(s, <<"N", "a", "N">>, i) THEN ParseOk(PyNaN, i + 3)
    ELSE IF MatchAt(s, <<"I", "n", "f", "i", "n", "i", "t", "y">>, i)
         THEN ParseOk(PyInf(1), i + 8)
    ELSE IF MatchAt(s, <<"-", "I", "n", "f", "i", "n", "i", "t", "y">>, i)
         THEN ParseOk(PyInf(-1), i + 9)
    ELSE ParseNumber(s, i)
ParseMembers(s, i, acc) ==
    IF ~CharAt(s, i, "\"") THEN ParseFail
    ELSE MemberValue(s, acc, ParseStringFrom(s, i + 1, << >>))
MemberValue(s, acc, key) ==
    IF ~key.ok \/ ~CharAt(s, SkipWs(s, key.next), ":") THEN ParseFail
    ELSE MemberEnd(s, acc, key.v.v, ParseValue(s, SkipWs(s, SkipWs(s, key.next) + 1)))
MemberEnd(s, acc, k, val) ==
    IF ~val.ok THEN ParseFail
    ELSE IF CharAt(s, SkipWs(s, val.next), "}")
         THEN ParseOk(PyDict(DictSet(acc, k, val.v)), SkipWs(s, val.next) + 1)
    ELSE IF CharAt(s, SkipWs(s, val.next), ",")
         THEN ParseMembers(s, SkipWs(s, SkipWs(s, val.next) + 1), DictSet(acc, k, val.v))
    ELSE ParseFail
ParseElements(s, i, acc) == ElementEnd(s, acc, ParseValue(s, i))
ElementEnd(s, acc, val) ==
    IF ~val.ok THEN ParseFail
    ELSE IF CharAt(s, SkipWs(s, val.next), "]")
         THEN ParseOk(PyList(Append(acc, val.v)), SkipWs(s, val.next) + 1)
    ELSE IF CharAt(s, SkipWs(s, val.next), ",")
         THEN ParseElements(s, SkipWs(s, SkipWs(s, val.next) + 1), Append(acc, val.v))
    ELSE ParseFail

\* The value of a whole document: the decoder raises JSONDecodeError when
\* there is no value, or data after the value.
LoadsResult(s, r) ==
    IF r.ok /\ SkipWs(s, r.next) = Len(s) + 1 THEN Return(r.v)
    ELSE Raise("JSONDecodeError")

\* json.loads(s)
JsonLoads(s) == LoadsResult(s, ParseValue(s, SkipWs(s, 1)))

----------------------------------------------------------------------------
(* WatsonxAI._stub_generate: the deterministic stub responder *)

\* The string literals of _stub_generate.
StubText ==
    [patentability |-> <<"p","a","t","e","n","t","a","b","i","l","i","t","y">>,
     patentable |-> <<"p","a","t","e","n","t","a","b","l","e">>,
     device |-> <<"d","e","v","i","c","e">>,
     method |-> <<"m","e","t","h","o","d">>,
     system |-> <<"s","y","s","t","e","m">>,
     process |-> <<"p","r","o","c","e","s","s">>,
     similarity |-> <<"s","i","m","i","l","a","r","i","t","y">>,
     compare |-> <<"c","o","m","p","a","r","e">>,
     innovation |-> <<"i","n","n","o","v","a","t","i","o","n">>,
     feature |-> <<"f","e","a","t","u","r","e">>,
     extract |-> <<"e","x","t","r","a","c","t">>,
     invention_disclosure |-> <<"i","n","v","e","n","t","i","o","n"," ","d","i","s","c","l","o","s","u","r","e">>,
     convert |-> <<"c","o","n","v","e","r","t">>,
     isPatentable |-> <<"i","s","P","a","t","e","n","t","a","b","l","e">>,
     confidence |-> <<"c","o","n","f","i","d","e","n","c","e">>,
     reasoning |-> <<"r","e","a","s","o","n","i","n","g">>,
     missingElements |-> <<"m","i","s","s","i","n","g","E","l","e","m","e","n","t","s">>,
     recommendations |-> <<"r","e","c","o","m","m","e","n","d","a","t","i","o","n","s">>,
     analysis_indicates |-> <<"A","n","a","l","y","s","i","s"," ","i","n","d","i","c","a","t","e","s"," ">>,
     publishable |-> <<"p","u","b","l","i","s","h","a","b","l","e">>,
     disclosure |-> <<" ","d","i","s","c","l","o","s","u","r","e">>,
     missing_1 |-> <<"S","p","e","c","i","f","i","c"," ","i","m","p","l","e","m","e","n","t","a","t","i","o","n"," ","d","e","t","a","i","l","s">>,
     missing_2 |-> <<"M","a","n","u","f","a","c","t","u","r","i","n","g"," ","s","p","e","c","i","f","i","c","a","t","i","o","n","s">>,
     recommend_1 |-> <<"R","e","v","i","e","w"," ","d","i","s","c","l","o","s","u","r","e"," ","a","g","a","i","n","s","t"," ","p","r","i","o","r"," ","a","r","t">>,
     recommend_2 |-> <<"C","o","n","s","i","d","e","r"," ","c","l","a","i","m"," ","s","c","o","p","e">>,
     similarity_score |-> <<"s","i","m","i","l","a","r","i","t","y","_","s","c","o","r","e">>,
     overlapping_concepts |-> <<"o","v","e","r","l","a","p","p","i","n","g","_","c","o","n","c","e","p","t","s">>,
     key_differences |-> <<"k","e","y","_","d","i","f","f","e","r","e","n","c","e","s">>,
     overlap_1 |-> <<"T","e","c","h","n","i","c","a","l"," ","a","r","c","h","i","t","e","c","t","u","r","e"," ","s","i","m","i","l","a","r","i","t","y">>,
     overlap_2 |-> <<"I","m","p","l","e","m","e","n","t","a","t","i","o","n"," ","a","p","p","r","o","a","c","h">>,
     overlap_3 |-> <<"P","e","r","f","o","r","m","a","n","c","e"," ","o","p","t","i","m","i","z","a","t","i","o","n"," ","s","t","r","a","t","e","g","y">>,
     overlap_generic |-> <<"G","e","n","e","r","i","c"," ","t","e","c","h","n","o","l","o","g","i","c","a","l"," ","d","o","m","a","i","n">>,
     difference_1 |-> <<"N","o","v","e","l"," ","a","l","g","o","r","i","t","h","m"," ","i","m","p","l","e","m","e","n","t","a","t","i","o","n">>,
     difference_2 |-> <<"E","n","h","a","n","c","e","d"," ","e","f","f","i","c","i","e","n","c","y"," ","m","e","t","r","i","c","s">>,
     difference_3 |-> <<"I","m","p","r","o","v","e","d"," ","s","c","a","l","i","n","g"," ","a","p","p","r","o","a","c","h">>,
     technical_innovation |-> <<"T","e","c","h","n","i","c","a","l"," ","i","n","n","o","v","a","t","i","o","n"," ">>,
     generic_head |-> <<"A","n","a","l","y","s","i","s"," ","g","e","n","e","r","a","t","e","d"," ","w","i","t","h"," ","d","y","n","a","m","i","c"," ","r","e","s","p","o","n","s","e"," ","(","s","e","e","d",":"," ">>,
     generic_tail |-> <<")">>]

\* The three literal parts of the synthetic-disclosure f-string, around
\* {prompt_hash % 1000} and {40 + (prompt_hash % 40)}.
StubDisclosureHead ==
    <<"\n","T","i","t","l","e",":"," ","G","e","n","e","r","a","t","e","d"," ","I","n","v",
      "e","n","t","i","o","n"," ","D","i","s","c","l","o","s","u","r","e"," ","(">>
StubDisclosureMiddle ==
    <<")","\n","\n","B","a","c","k","g","r","o","u","n","d",":","\n","T","e","c","h","n",
      "i","c","a","l"," ","i","n","n","o","v","a","t","i","o","n"," ","s","y","s","t","e",
      "m"," ","d","e","s","i","g","n","e","d"," ","f","o","r"," ","i","m","p","r","o","v",
      "e","d"," ","p","e","r","f","o","r","m","a","n","c","e"," ","m","e","t","r","i","c",
      "s",".","\n","\n","K","e","y"," ","I","n","n","o","v","a","t","i","o","n","s",":",
      "\n","1","."," ","P","r","i","m","a","r","y"," ","t","e","c","h","n","i","c","a","l",
      " ","a","d","v","a","n","c","e","m","e","n","t"," ","f","o","r"," ","s","y","s","t",
      "e","m"," ","e","f","f","i","c","i","e","n","c","y","\n","2","."," ","S","e","c","o",
      "n","d","a","r","y"," ","o","p","t","i","m","i","z","a","t","i","o","n"," ","a","p",
      "p","r","o","a","c","h"," ","f","o","r"," ","r","e","s","o","u","r","c","e"," ","m",
      "a","n","a","g","e","m","e","n","t","\n","3","."," ","T","e","r","t","i","a","r","y",
      " ","e","n","h","a","n","c","e","m","e","n","t"," ","f","o","r"," ","s","c","a","l",
      "a","b","i","l","i","t","y","\n","\n","T","e","c","h","n","i","c","a","l"," ","D","e",
      "t","a","i","l","s",":","\n","-"," ","P","e","r","f","o","r","m","a","n","c","e"," ",
      "i","m","p","r","o","v","e","m","e","n","t",":"," ">>
StubDisclosureTail ==
    <<"%","\n","-"," ","C","o","m","p","l","e","x","i","t","y"," ","m","e","t","r","i","c",
      ":"," ","O","(","n"," ","l","o","g"," ","n",")","\n","-"," ","R","e","s","o","u","r",
      "c","e"," ","e","f","f","i","c","i","e","n","c","y",":"," ","E","n","h","a","n","c",
      "e","d","\n">>

MinInt(a, b) == IF a < b THEN a ELSE b
MaxInt(a, b) == IF a > b THEN a ELSE b

\* The patentability branch: json.dumps of the assessment.
StubPatentability(prompt_lower, prompt_hash) ==
    LET is_patentable == \/ Contains(prompt_lower, StubText.device)
                         \/ Contains(prompt_lower, StubText.method)
                         \/ Contains(prompt_lower, StubText.system)
                         \/ Contains(prompt_lower, StubText.process)
        confidence == 60 + (prompt_hash % 35)
    IN  JsonDumps(PyDict(<<
            <<StubText.isPatentable, PyBool(is_patentable)>>,
            <<StubText.confidence, PyInt(MinInt(95, confidence))>>,
            <<StubText.reasoning,
              PyStr(StubText.analysis_indicates
                        \o (IF is_patentable THEN StubText.patentable
                                             ELSE StubText.publishable)
                        \o StubText.disclosure)>>,
            <<StubText.missingElements,
              IF is_patentable THEN PyList(<< >>)
              ELSE PyList(<<PyStr(StubText.missing_1), PyStr(StubText.missing_2)>>)>>,
            <<StubText.recommendations,
              PyList(<<PyStr(StubText.recommend_1), PyStr(StubText.recommend_2)>>)>> >>))

\* A faulty variant of the similarity branch, which forgets the clamp.
StubSimilarityUnclamped(prompt_lower, seed_score) ==
    LET innovation_count == Count(prompt_lower, StubText.innovation)
                                + Count(prompt_lower, StubText.feature)
        similarity_score == seed_score + (innovation_count * 2)
    IN  JsonDumps(PyDict(<<
            <<StubText.similarity_score, PyFloat(similarity_score, 0)>>,
            <<StubText.overlapping_concepts, PyList(<<PyStr(StubText.overlap_generic)>>)>>,
            <<StubText.key_differences, PyList(<<PyStr(StubText.difference_1)>>)>> >>))

\* The similarity branch: json.dumps of the similarity assessment.
StubSimilarity(prompt_lower, seed_score) ==
    LET innovation_count == Count(prompt_lower, StubText.innovation)
                                + Count(prompt_lower, StubText.feature)
        base_score == seed_score + (innovation_count * 2)
        similarity_score == MinInt(95, MaxInt(10, base_score))
    IN  JsonDumps(PyDict(<<
            <<StubText.similarity_score, PyFloat(similarity_score, 0)>>,
            <<StubText.overlapping_concepts,
              IF similarity_score > 60
              THEN PyList(<<PyStr(StubText.overlap_1), PyStr(StubText.overlap_2),
                            PyStr(StubText.overlap_3)>>)
              ELSE PyList(<<PyStr(StubText.overlap_generic)>>)>>,
            <<StubText.key_differences,
              PyList(<<PyStr(StubText.difference_1), PyStr(StubText.difference_2),
                       PyStr(StubText.difference_3)>>)>> >>))

\* The innovation branch: json.dumps of a list of placeholders.
StubInnovations(prompt) ==
    LET num_innovations == 3 + (Len(prompt) \div 500)
    IN  JsonDumps(PyList([i \in 1..MinInt(5, num_innovations) |->
            PyStr(StubText.technical_innovation \o IntToStr(i))]))

\* The synthetic-disclosure branch: free text.
StubDisclosure(prompt_hash) ==
    StubDisclosureHead \o IntToStr(prompt_hash % 1000) \o StubDisclosureMiddle
        \o IntToStr(40 + (prompt_hash % 40)) \o StubDisclosureTail

\* The generic branch: one sentence.
StubGeneric(prompt_hash) ==
    StubText.generic_head \o IntToStr(prompt_hash % 10000) \o StubText.generic_tail

\* A faulty variant of _stub_generate, which tests the similarity markers
\* before the patentability markers.
_stub_generate_similarity_first(prompt, prompt_hash) ==
    IF ~Encodable(prompt) THEN Raise("UnicodeEncodeError")
    ELSE IF \/ Contains(Lower(prompt), StubText.similarity)
            \/ Contains(Lower(prompt), StubText.compare)
         THEN Return(PyStr(StubSimilarity(Lower(prompt), (prompt_hash % 40) + 40)))
    ELSE IF \/ Contains(Lower(prompt), StubText.patentability)
            \/ Contains(Lower(prompt), StubText.patentable)
         THEN Return(PyStr(StubPatentability(Lower(prompt), prompt_hash)))
    ELSE IF \/ Contains(Lower(prompt), StubText.innovation)
            \/ Contains(Lower(prompt), StubText.extract)
         THEN Return(PyStr(StubInnovations(prompt)))
    ELSE IF /\ Contains(Lower(prompt), StubText.invention_disclosure)
            /\ Contains(Lower(prompt), StubText.convert)
         THEN Return(PyStr(StubDisclosure(prompt_hash)))
    ELSE Return(PyStr(StubGeneric(prompt_hash)))

\* _stub_generate(prompt), given the integer prompt_hash that the MD5 digest
\* of the encoded prompt yields.  Encoding a lone surrogate raises.
_stub_generate(prompt, prompt_hash) ==
    LET prompt_lower == Lower(prompt)
        seed_score == (prompt_hash % 40) + 40
    IN  IF ~Encodable(prompt) THEN Raise("UnicodeEncodeError")
        ELSE IF \/ Contains(prompt_lower, StubText.patentability)
                \/ Contains(prompt_lower, StubText.patentable)
             THEN Return(PyStr(StubPatentability(prompt_lower, prompt_hash)))
        ELSE IF \/ Contains(prompt_lower, StubText.similarity)
                \/ Contains(prompt_lower, StubText.compare)
             THEN Return(PyStr(StubSimilarity(prompt_lower, seed_score)))
        ELSE IF \/ Contains(prompt_lower, StubText.innovation)
                \/ Contains(prompt_lower, StubText.extract)
             THEN Return(PyStr(StubInnovations(prompt)))
        ELSE IF /\ Contains(prompt_lower, StubText.invention_disclosure)
                /\ Contains(prompt_lower, StubText.convert)
             THEN Return(PyStr(StubDisclosure(prompt_hash)))
        ELSE Return(PyStr(StubGeneric(prompt_hash)))

----------------------------------------------------------------------------
(* WatsonxAI: the generation client *)

\* The object after __init__, from the environment: whether WATSONX_API_KEY
\* and WATSONX_PROJECT_ID are set, whether the SDK imported
\* (WATSONX_AVAILABLE), and whether building the client raised.
WatsonxAI_init(has_api_key, has_project_id, WATSONX_AVAILABLE, init_raises) ==
    IF ~has_api_key \/ ~has_project_id
    THEN [api_key |-> has_api_key, project_id |-> has_project_id,
          model |-> "None", use_stub |-> TRUE]
    ELSE IF ~WATSONX_AVAILABLE
    THEN [api_key |-> has_api_key, project_id |-> has_project_id,
          model |-> "None", use_stub |-> TRUE]
    ELSE IF init_raises
    THEN [api_key |-> has_api_key, project_id |-> has_project_id,
          model |-> "None", use_stub |-> TRUE]
    ELSE [api_key |-> has_api_key, project_id |-> has_project_id,
          model |-> "ModelInference", use_stub |-> FALSE]

\* Whether generate takes the stub branch without calling the backend.
StubMode(self) == self.use_stub \/ self.model = "None"

\* generate(prompt).  backend is what self.model.generate_text(prompt) does
\* when called: it returns a value or raises.
WatsonxAI_generate(self, prompt, backend, prompt_hash) ==
    IF StubMode(self) THEN _stub_generate(prompt, prompt_hash)
    ELSE IF backend.kind = "return" /\ IsStr(backend.v)
         THEN Return(PyStr(Strip(backend.v.v)))
    ELSE _stub_generate(prompt, prompt_hash)

\* A faulty variant of generate's effect on the object, in which a failed
\* backend call switches the object to the stub for good.
WatsonxAI_generate_self_sticky(self, backend) ==
    IF ~StubMode(self) /\ ~(backend.kind = "return" /\ IsStr(backend.v))
    THEN [self EXCEPT !.use_stub = TRUE]
    ELSE self

\* The object that generate(prompt) leaves behind: none of its statements
\* assigns to self, whether the backend call returned or raised.
WatsonxAI_generate_self(self, backend) == self

FenceJson == <<BACKTICK,BACKTICK,BACKTICK,"j","s","o","n">>
Fence == <<BACKTICK,BACKTICK,BACKTICK>>

\* response.replace('```json', '').replace('```', '').strip()
CleanResponse(response) == Strip(Remove(Remove(response, FenceJson), Fence))

\* generate_json once generate has returned or raised: json.loads of the
\* cleaned response, whose JSONDecodeError is logged and raised again.
ParseResponse(response) ==
    IF response.kind = "raise" THEN response
    ELSE JsonLoads(CleanResponse(response.v.v))

\* generate_json(prompt)
WatsonxAI_generate_json(self, prompt, backend, prompt_hash) ==
    ParseResponse(WatsonxAI_generate(self, prompt, backend, prompt_hash))

\* The patentability prompt, around {text[:2000]}; ClaimExtractor and
\* WatsonxAI build the same one.
PatentabilityPromptHead ==
    <<"\n","A","n","a","l","y","z","e"," ","i","f"," ","t","h","i","s"," ","i","n","v","e",
      "n","t","i","o","n"," ","d","i","s","c","l","o","s","u","r","e"," ","i","s"," ","P",
      "A","T","E","N","T","A","B","L","E"," ","o","r"," ","j","u","s","t"," ","P","U","B",
      "L","I","S","H","A","B","L","E"," ","r","e","s","e","a","r","c","h",".","\n","\n","P",
      "A","T","E","N","T","A","B","L","E"," ","i","n","v","e","n","t","i","o","n","s"," ",
      "h","a","v","e",":","\n","-"," ","S","p","e","c","i","f","i","c"," ","d","e","v","i",
      "c","e"," ","d","e","s","i","g","n",","," ","p","r","o","c","e","s","s"," ","s","t",
      "e","p","s",","," ","o","r"," ","m","e","t","h","o","d","\n","-"," ","I","n","d","u",
      "s","t","r","i","a","l"," ","a","p","p","l","i","c","a","t","i","o","n"," ","(","c",
      "a","n"," ","b","e"," ","m","a","n","u","f","a","c","t","u","r","e","d","/","u","s",
      "e","d",")","\n","-"," ","T","e","c","h","n","i","c","a","l"," ","d","e","t","a","i",
      "l","s"," ","(","n","u","m","b","e","r","s",","," ","m","a","t","e","r","i","a","l",
      "s",","," ","c","o","n","f","i","g","u","r","a","t","i","o","n","s",")","\n","\n","P",
      "U","B","L","I","S","H","A","B","L","E","-","O","N","L","Y"," ","r","e","s","e","a",
      "r","c","h",":","\n","-"," ","O","n","l","y"," ","t","h","e","o","r","y"," ","o","r",
      " ","e","x","p","e","r","i","m","e","n","t","a","l"," ","r","e","s","u","l","t","s",
      "\n","-"," ","N","o"," ","s","p","e","c","i","f","i","c"," ","i","m","p","l","e","m",
      "e","n","t","a","t","i","o","n","\n","-"," ","J","u","s","t"," ","o","b","s","e","r",
      "v","a","t","i","o","n","s"," ","o","r"," ","d","i","s","c","o","v","e","r","i","e",
      "s","\n","\n","D","i","s","c","l","o","s","u","r","e"," ","(","f","i","r","s","t"," ",
      "2","0","0","0"," ","c","h","a","r","s",")",":","\n">>
PatentabilityPromptTail ==
    <<"\n","\n","R","e","s","p","o","n","d"," ","w","i","t","h"," ","O","N","L","Y"," ","v",
      "a","l","i","d"," ","J","S","O","N",":","\n","{","\n"," "," "," "," ","\"","i","s",
      "P","a","t","e","n","t","a","b","l","e","\"",":"," ","t","r","u","e","/","f","a","l",
      "s","e",",","\n"," "," "," "," ","\"","c","o","n","f","i","d","e","n","c","e","\"",
      ":"," ","0","-","1","0","0",",","\n"," "," "," "," ","\"","r","e","a","s","o","n","i",
      "n","g","\"",":"," ","\"","b","r","i","e","f"," ","e","x","p","l","a","n","a","t","i",
      "o","n","\"",",","\n"," "," "," "," ","\"","m","i","s","s","i","n","g","E","l","e",
      "m","e","n","t","s","\"",":"," ","[","\"","e","l","e","m","e","n","t","1","\"",",",
      " ","\"","e","l","e","m","e","n","t","2","\"","]",",","\n"," "," "," "," ","\"","r",
      "e","c","o","m","m","e","n","d","a","t","i","o","n","s","\"",":"," ","[","\"","a","d",
      "d"," ","s","p","e","c","i","f","i","c"," ","d","e","v","i","c","e"," ","d","e","t",
      "a","i","l","s","\"",","," ","\"","d","e","f","i","n","e"," ","m","a","n","u","f","a",
      "c","t","u","r","i","n","g"," ","p","r","o","c","e","s","s","\"","]","\n","}","\n",
      "\n","D","O"," ","N","O","T"," ","i","n","c","l","u","d","e"," ","a","n","y"," ","t",
      "e","x","t"," ","b","e","f","o","r","e"," ","o","r"," ","a","f","t","e","r"," ","t",
      "h","e"," ","J","S","O","N",".","\n">>
PatentabilityPrompt(text) ==
    PatentabilityPromptHead \o Slice(text, 0, 2000) \o PatentabilityPromptTail

\* assess_patentability(text)
WatsonxAI_assess_patentability(self, text, backend, prompt_hash) ==
    WatsonxAI_generate_json(self, PatentabilityPrompt(text), backend, prompt_hash)

\* The similarity prompt, around {json.dumps(disclosure_innovations)},
\* {patent_title} and {patent_abstract[:500]}.
SimilarityPromptHead ==
    <<"\n","C","o","m","p","a","r","e"," ","i","n","v","e","n","t","i","o","n"," ","d","i",
      "s","c","l","o","s","u","r","e"," ","w","i","t","h"," ","p","a","t","e","n","t",".",
      " ","R","e","t","u","r","n"," ","J","S","O","N",":","\n","{","\n"," "," "," "," ",
      "\"","s","i","m","i","l","a","r","i","t","y","_","s","c","o","r","e","\"",":"," ","0",
      "-","1","0","0",",","\n"," "," "," "," ","\"","o","v","e","r","l","a","p","p","i","n",
      "g","_","c","o","n","c","e","p","t","s","\"",":"," ","[","\"","c","o","n","c","e","p",
      "t","1","\"",","," ","\"","c","o","n","c","e","p","t","2","\"","]",",","\n"," "," ",
      " "," ","\"","k","e","y","_","d","i","f","f","e","r","e","n","c","e","s","\"",":"," ",
      "[","\"","d","i","f","f","1","\"",","," ","\"","d","i","f","f","2","\"","]","\n","}",
      "\n","\n","D","i","s","c","l","o","s","u","r","e"," ","i","n","n","o","v","a","t","i",
      "o","n","s",":","\n">>
SimilarityPromptTitle ==
    <<"\n","\n","P","a","t","e","n","t",":","\n","T","i","t","l","e",":"," ">>
SimilarityPromptAbstract ==
    <<"\n","A","b","s","t","r","a","c","t",":"," ">>
SimilarityPromptTail ==
    <<"\n">>
SimilarityPrompt(disclosure_innovations, patent_title, patent_abstract) ==
    SimilarityPromptHead \o JsonDumps(disclosure_innovations) \o SimilarityPromptTitle
        \o patent_title \o SimilarityPromptAbstract \o Slice(patent_abstract, 0, 500)
        \o SimilarityPromptTail

\* score_similarity(disclosure_innovations, patent_title, patent_abstract)
WatsonxAI_score_similarity(self, disclosure_innovations, patent_title, patent_abstract, backend, prompt_hash) ==
    WatsonxAI_generate_json(self,
        SimilarityPrompt(disclosure_innovations, patent_title, patent_abstract),
        backend, prompt_hash)

----------------------------------------------------------------------------
(* ClaimExtractor *)

\* The string literals of ClaimExtractor.
ExtractorText ==
    [isPatentable |-> <<"i","s","P","a","t","e","n","t","a","b","l","e">>,
     confidence |-> <<"c","o","n","f","i","d","e","n","c","e">>,
     missingElements |-> <<"m","i","s","s","i","n","g","E","l","e","m","e","n","t","s">>,
     recommendations |-> <<"r","e","c","o","m","m","e","n","d","a","t","i","o","n","s">>,
     manual_review |-> <<"M","a","n","u","a","l"," ","r","e","v","i","e","w"," ","r","e","c","o","m","m","e","n","d","e","d"," ","-"," ","a","u","t","o","m","a","t","e","d"," ","a","s","s","e","s","s","m","e","n","t"," ","f","a","i","l","e","d">>,
     background |-> <<"b","a","c","k","g","r","o","u","n","d">>,
     innovations |-> <<"i","n","n","o","v","a","t","i","o","n","s">>,
     keywords |-> <<"k","e","y","w","o","r","d","s">>,
     ipcClassifications |-> <<"i","p","c","C","l","a","s","s","i","f","i","c","a","t","i","o","n","s">>,
     text |-> <<"t","e","x","t">>,
     pending |-> <<"I","n","n","o","v","a","t","i","o","n"," ","e","x","t","r","a","c","t","i","o","n"," ","p","e","n","d","i","n","g">>,
     disclosure |-> <<"d","i","s","c","l","o","s","u","r","e">>,
     analysis |-> <<"a","n","a","l","y","s","i","s">>,
     G06F |-> <<"G","0","6","F">>,
     no_text |-> <<"N","o"," ","d","i","s","c","l","o","s","u","r","e"," ","t","e","x","t"," ","p","r","o","v","i","d","e","d">>,
     technical_disclosure |-> <<"T","e","c","h","n","i","c","a","l"," ","d","i","s","c","l","o","s","u","r","e"," ","p","r","o","v","i","d","e","d">>,
     extraction_failed |-> <<"I","n","n","o","v","a","t","i","o","n"," ","e","x","t","r","a","c","t","i","o","n"," ","f","a","i","l","e","d"," ","-"," ","m","a","n","u","a","l"," ","r","e","v","i","e","w"," ","n","e","e","d","e","d">>]

\* A faulty variant of the fallback assessment, which fails closed.
AssessmentFallbackBlocking ==
    PyDict(<<
        <<ExtractorText.isPatentable, PyBool(FALSE)>>,
        <<ExtractorText.confidence, PyInt(0)>>,
        <<ExtractorText.missingElements, PyList(<< >>)>>,
        <<ExtractorText.recommendations,
          PyList(<<PyStr(ExtractorText.manual_review)>>)>> >>)

\* The assessment returned when generation or parsing raised.
AssessmentFallback ==
    PyDict(<<
        <<ExtractorText.isPatentable, PyBool(TRUE)>>,
        <<ExtractorText.confidence, PyInt(60)>>,
        <<ExtractorText.missingElements, PyList(<< >>)>>,
        <<ExtractorText.recommendations,
          PyList(<<PyStr(ExtractorText.manual_review)>>)>> >>)

\* The cleaning and parsing both methods of ClaimExtractor apply to the
\* response of generate, inside their try.
LoadsCleaned(response) ==
    IF response.kind = "raise" THEN response
    ELSE JsonLoads(CleanResponse(response.v.v))

\* The rest of the try block of assess_patentability and its except:
\* result.get on a value that is no dict raises AttributeError, and every
\* exception gives the fallback.
PatentabilityResult(result) ==
    IF result.kind = "raise" \/ ~IsDict(result.v)
    THEN Return(AssessmentFallback)
    ELSE Return(PyDict(<<
             <<ExtractorText.isPatentable,
               DictGet(result.v, ExtractorText.isPatentable, PyBool(TRUE))>>,
             <<ExtractorText.confidence,
               DictGet(result.v, ExtractorText.confidence, PyInt(50))>>,
             <<ExtractorText.missingElements,
               DictGet(result.v, ExtractorText.missingElements, PyList(<< >>))>>,
             <<ExtractorText.recommendations,
               DictGet(result.v, ExtractorText.recommendations, PyList(<< >>))>> >>))

\* assess_patentability(text)
ClaimExtractor_assess_patentability(self, text, backend, prompt_hash) ==
    PatentabilityResult(LoadsCleaned(
        WatsonxAI_generate(self, PatentabilityPrompt(text), backend, prompt_hash)))

\* The section markers of _extract_background, in the order it tries them.
patterns ==
    <<<<"b","a","c","k","g","r","o","u","n","d">>,
      <<"p","r","i","o","r"," ","a","r","t">>,
      <<"f","i","e","l","d"," ","o","f"," ","i","n","v","e","n","t","i","o","n">>,
      <<"t","e","c","h","n","i","c","a","l"," ","f","i","e","l","d">>,
      <<"p","r","o","b","l","e","m">>,
      <<"i","n","t","r","o","d","u","c","t","i","o","n">>,
      <<"o","v","e","r","v","i","e","w">>>>

\* The loop of _extract_background from the i-th pattern on, and the
\* fallback after it.
RECURSIVE BackgroundFrom(_, _, _)
BackgroundFrom(text, text_lower, i) ==
    IF i > Len(patterns)
    THEN LET background == Strip(Slice(text, 0, 300))
         IN  IF background # << >> THEN background
             ELSE ExtractorText.technical_disclosure
    ELSE IF Contains(text_lower, patterns[i])
         THEN LET start == Index(text_lower, patterns[i])
                  background == Strip(Slice(text, start, start + 500))
              IN  IF background # << >> THEN background
                  ELSE BackgroundFrom(text, text_lower, i + 1)
    ELSE BackgroundFrom(text, text_lower, i + 1)

\* A faulty variant of _extract_background, without the test for an empty
\* text.
_extract_background_unguarded(text) == BackgroundFrom(text, Lower(text), 1)

\* _extract_background(text)
_extract_background(text) ==
    IF text = << >> THEN ExtractorText.no_text
    ELSE BackgroundFrom(text, Lower(text), 1)

\* The innovation prompt, around {text[:1500]}.
InnovationPromptHead ==
    <<"\n","E","x","t","r","a","c","t"," ","t","h","e"," ","3","-","5"," ","k","e","y"," ",
      "t","e","c","h","n","i","c","a","l"," ","i","n","n","o","v","a","t","i","o","n","s",
      " ","f","r","o","m"," ","t","h","i","s"," ","d","i","s","c","l","o","s","u","r","e",
      ".","\n","F","o","c","u","s"," ","o","n"," ","W","H","A","T"," ","i","s"," ","n","e",
      "w",","," ","n","o","t"," ","W","H","Y"," ","i","t","'","s"," ","i","m","p","o","r",
      "t","a","n","t",".","\n","\n","D","i","s","c","l","o","s","u","r","e",":","\n">>
InnovationPromptTail ==
    <<"\n","\n","R","e","t","u","r","n"," ","J","S","O","N"," ","l","i","s","t",":","\n",
      "[","\"","I","n","n","o","v","a","t","i","o","n"," ","1","\"",","," ","\"","I","n",
      "n","o","v","a","t","i","o","n"," ","2","\"",","," ",".",".",".","]","\n">>
InnovationPrompt(text) ==
    InnovationPromptHead \o Slice(text, 0, 1500) \o InnovationPromptTail

\* The rest of the try block of _extract_innovations and its except: a
\* non-empty list is returned as it is, anything else raises ValueError,
\* and every exception gives the placeholder.
InnovationsResult(innovations) ==
    IF innovations.kind = "return" /\ IsList(innovations.v) /\ Truthy(innovations.v)
    THEN innovations.v
    ELSE PyList(<<PyStr(ExtractorText.extraction_failed)>>)

\* _extract_innovations(text, nlu_result)
_extract_innovations(self, text, backend, prompt_hash) ==
    InnovationsResult(LoadsCleaned(
        WatsonxAI_generate(self, InnovationPrompt(text), backend, prompt_hash)))

\* ipc_mapping, in the order of the dict literal: <<term, codes>>.
ipc_mapping ==
    <<<<<<"b","a","t","t","e","r","y">>, <<<<"H","0","1","M","1","0","/","0","5">>>>>>,
      <<<<"e","l","e","c","t","r","o","l","y","t","e">>, <<<<"H","0","1","M","1","0","/","0","5","6","2">>>>>>,
      <<<<"l","i","t","h","i","u","m">>, <<<<"H","0","1","M","1","0","/","0","5","2","5">>>>>>,
      <<<<"d","r","u","g">>, <<<<"A","6","1","K","3","1">>>>>>,
      <<<<"p","h","a","r","m","a","c","e","u","t","i","c","a","l">>, <<<<"A","6","1","K">>>>>>,
      <<<<"n","e","u","r","a","l"," ","n","e","t","w","o","r","k">>, <<<<"G","0","6","N","3","/","0","8">>>>>>,
      <<<<"m","a","c","h","i","n","e"," ","l","e","a","r","n","i","n","g">>, <<<<"G","0","6","N","2","0","/","0","0">>>>>>,
      <<<<"s","e","n","s","o","r">>, <<<<"G","0","1","D","5","/","0","0">>>>>>,
      <<<<"s","e","m","i","c","o","n","d","u","c","t","o","r">>, <<<<"H","0","1","L","2","9","/","0","0">>>>>>,
      <<<<"d","a","t","a","b","a","s","e">>, <<<<"G","0","6","F","1","6">>>>>>,
      <<<<"c","o","m","m","u","n","i","c","a","t","i","o","n">>, <<<<"H","0","4","L">>>>>>,
      <<<<"w","i","r","e","l","e","s","s">>, <<<<"H","0","4","W">>>>>>,
      <<<<"s","o","f","t","w","a","r","e">>, <<<<"G","0","6","F">>>>>>,
      <<<<"a","l","g","o","r","i","t","h","m">>, <<<<"G","0","6","F">>>>>>,
      <<<<"n","e","t","w","o","r","k">>, <<<<"H","0","4","L">>>>>>,
      <<<<"m","e","d","i","c","a","l">>, <<<<"A","6","1">>>>>>,
      <<<<"c","h","e","m","i","c","a","l">>, <<<<"C","0","1">>>>>>,
      <<<<"p","o","l","y","m","e","r">>, <<<<"C","0","8">>>>>>,
      <<<<"m","e","t","a","l">>, <<<<"C","2","2">>>>>>,
      <<<<"e","n","g","i","n","e">>, <<<<"F","0","2">>>>>>,
      <<<<"m","e","c","h","a","n","i","c","a","l">>, <<<<"F","1","6">>>>>>,
      <<<<"d","i","s","p","l","a","y">>, <<<<"G","0","9">>>>>>,
      <<<<"o","p","t","i","c","s">>, <<<<"G","0","2">>>>>>>>

\* The table entries from the j-th on whose term occurs in keyword_lower.
MatchingTerms(keyword_lower, j) ==
    {k \in j..Len(ipc_mapping) : Contains(keyword_lower, ipc_mapping[k][1])}

\* A faulty variant of the inner loop of _classify_ipc, which leaves the
\* table at the first term that matches.
ClassifyTermsFirstMatch(keyword_lower, j, codes) ==
    IF MatchingTerms(keyword_lower, j) = {} THEN codes
    ELSE codes \cup Range(ipc_mapping[Min(MatchingTerms(keyword_lower, j))][2])

\* The inner loop of _classify_ipc: codes after the table entries from the
\* j-th on have been tried against keyword_lower, each matching term having
\* added its codes with ipc_codes.update(codes).
ClassifyTerms(keyword_lower, j, codes) ==
    codes \cup UNION {Range(ipc_mapping[k][2]) : k \in MatchingTerms(keyword_lower, j)}

\* The outer loop of _classify_ipc over the keywords from the i-th on.
ClassifyKeywords(keywords, i, codes) ==
    codes \cup UNION {ClassifyTerms(Lower(keywords[k].v), 1, {}) : k \in i..Len(keywords)}

\* _classify_ipc(keywords): keyword.lower() raises AttributeError on a
\* keyword that is no str.
_classify_ipc(keywords) ==
    IF \E i \in DOMAIN keywords : ~IsStr(keywords[i]) THEN Raise("AttributeError")
    ELSE LET found == ClassifyKeywords(keywords, 1, {})
             codes == IF found = {} THEN {ExtractorText.G06F} ELSE found
             sorted == Sorted(codes)
         IN  Return(PyList([i \in DOMAIN sorted |-> PyStr(sorted[i])]))

\* The comprehension [kw['text'] for kw in nlu_result.get('keywords', [])][:20]:
\* subscripting an item that is no dict raises TypeError, a dict without
\* 'text' raises KeyError.
KeywordTexts(nlu_result) ==
    LET items == DictGet(nlu_result, ExtractorText.keywords, PyList(<< >>))
    IN  IF ~IsList(items) THEN Raise("TypeError")
        ELSE IF \E i \in DOMAIN items.v : ~IsDict(items.v[i]) THEN Raise("TypeError")
        ELSE IF \E i \in DOMAIN items.v : ~DictHas(items.v[i], ExtractorText.text)
             THEN Raise("KeyError")
        ELSE Return(PyList(Slice([i \in DOMAIN items.v |->
                                     DictAt(items.v[i], ExtractorText.text)], 0, 20)))

\* The dict that extract returns, with its defaults for empty components.
ExtractResult(background, innovations, keywords, ipc_codes) ==
    IF ipc_codes.kind = "raise" THEN ipc_codes
    ELSE Return(PyDict(<<
             <<ExtractorText.background, PyStr(background)>>,
             <<ExtractorText.innovations,
               IF Truthy(innovations) THEN innovations
               ELSE PyList(<<PyStr(ExtractorText.pending)>>)>>,
             <<ExtractorText.keywords,
               IF Truthy(keywords) THEN keywords
               ELSE PyList(<<PyStr(ExtractorText.disclosure),
                             PyStr(ExtractorText.analysis)>>)>>,
             <<ExtractorText.ipcClassifications,
               IF Truthy(ipc_codes.v) THEN ipc_codes.v
               ELSE PyList(<<PyStr(ExtractorText.G06F)>>)>> >>))

\* extract from the keyword comprehension on.
ExtractComponents(background, innovations, keywords) ==
    IF keywords.kind = "raise" THEN keywords
    ELSE ExtractResult(background, innovations, keywords.v, _classify_ipc(keywords.v.v))

\* extract(text).  nlu is what self.watsonx_nlu.analyze(text) does: it
\* returns a value or raises, outside any try.
ClaimExtractor_extract(self, text, nlu, backend, prompt_hash) ==
    IF nlu.kind = "raise" THEN nlu
    ELSE IF ~IsDict(nlu.v) THEN Raise("AttributeError")
    ELSE ExtractComponents(_extract_background(text),
                           _extract_innovations(self, text, backend, prompt_hash),
                           KeywordTexts(nlu.v))

----------------------------------------------------------------------------
(* Inputs *)

\* The most words a prompt given to generate is made of.
MaxWords == 3
\* The most keywords in a list given to _classify_ipc.
MaxKeywords == 2
\* The number of sample digests, less one.
MaxDigest == 2

\* Words that prompts are made of: the stub's topic markers in mixed case,
\* words it counts or tests, a run of nine counted words, and a lone
\* surrogate.
PromptWords ==
    <<<<"P","A","T","E","N","T","A","B","I","L","I","T","Y">>,
      <<"p","a","t","e","n","t","a","b","l","e">>,
      <<"S","i","m","i","l","a","r","i","t","y">>,
      <<"c","o","m","p","a","r","e">>,
      <<"i","n","n","o","v","a","t","i","o","n">>,
      <<"e","x","t","r","a","c","t">>,
      <<"I","n","v","e","n","t","i","o","n"," ","D","i","s","c","l","o","s","u","r","e">>,
      <<"c","o","n","v","e","r","t">>,
      <<"F","E","A","T","U","R","E">>,
      <<"d","e","v","i","c","e">>,
      <<"F","e","a","t","u","r","e"," ","f","e","a","t","u","r","e"," ","f","e","a","t","u","r","e"," ","f","e","a","t","u","r","e"," ","f","e","a","t","u","r","e"," ","f","e","a","t","u","r","e"," ","f","e","a","t","u","r","e"," ","f","e","a","t","u","r","e"," ","f","e","a","t","u","r","e">>,
      <<SURROGATE>>>>

\* The words numbered by ws, joined by single spaces.
RECURSIVE JoinWords(_, _)
JoinWords(ws, i) ==
    IF i > Len(ws) THEN << >>
    ELSE (IF i > 1 THEN <<" ">> ELSE << >>) \o PromptWords[ws[i]] \o JoinWords(ws, i + 1)

\* The strictly increasing sequences of at most n numbers of 1..m.
Increasing(m, n) ==
    UNION {{ws \in [1..k -> 1..m] : \A i \in 1..(k - 1) : ws[i] < ws[i + 1]} : k \in 0..n}

\* The prompts given to generate and generate_json.
Prompts == {JoinWords(ws, 1) : ws \in Increasing(Len(PromptWords), MaxWords)}

\* The integers the digest of a prompt is taken to be: every claim about the
\* stub is checked for each of them, whatever the prompt.  Their residues
\* modulo 35 and 40 include the least and the greatest.
Digests == {(d * 1399) % 2147483647 : d \in 0..MaxDigest}

\* The texts the backend's generate_text returns.
BackendTexts ==
    <<<<BACKTICK,BACKTICK,BACKTICK,"j","s","o","n","\n","{","\"","a","\"",":","1","}","\n",BACKTICK,BACKTICK,BACKTICK>>,
      <<" "," ","T","h","e"," ","d","i","s","c","l","o","s","u","r","e"," ","l","o","o","k","s"," ","p","a","t","e","n","t","a","b","l","e","."," ","\n">>,
      << >>,
      <<"{","}">>,
      <<"{","\"","i","s","P","a","t","e","n","t","a","b","l","e","\"",":"," ","f","a","l","s","e",","," ","\"","c","o","n","f","i","d","e","n","c","e","\"",":"," ","1","5","0",","," ","\"","m","i","s","s","i","n","g","E","l","e","m","e","n","t","s","\"",":"," ","[","\"","d","r","a","w","i","n","g","s","\"","]",","," ","\"","r","e","c","o","m","m","e","n","d","a","t","i","o","n","s","\"",":"," ","[","\"","a","d","d"," ","c","l","a","i","m","s","\"","]","}">>,
      <<"{","\"","c","o","n","f","i","d","e","n","c","e","\"",":"," ","-","5","}">>,
      <<"{","\"","i","s","P","a","t","e","n","t","a","b","l","e","\"",":"," ","t","r","u","e",","," ","\"","c","o","n","f","i","d","e","n","c","e","\"",":"," ","8","7",".","5",","," ","\"","r","e","a","s","o","n","i","n","g","\"",":"," ","\"","s","p","e","c","i","f","i","c","\"","}">>,
      <<BACKTICK,BACKTICK,BACKTICK,"j","s","o","n","\n","{","\"","i","s","P","a","t","e","n","t","a","b","l","e","\"",":"," ","f","a","l","s","e",","," ","\"","c","o","n","f","i","d","e","n","c","e","\"",":"," ","4","0",","," ","\"","m","i","s","s","i","n","g","E","l","e","m","e","n","t","s","\"",":"," ","[","]",","," ","\"","r","e","c","o","m","m","e","n","d","a","t","i","o","n","s","\"",":"," ","[","]","}","\n",BACKTICK,BACKTICK,BACKTICK>>,
      <<"{","\"","c","o","n","f","i","d","e","n","c","e","\"",":"," ","\"","h","i","g","h","\"","}">>,
      <<"{","\"","c","o","n","f","i","d","e","n","c","e","\"",":"," ","N","a","N","}">>,
      <<"[","\"","S","o","l","i","d"," ","e","l","e","c","t","r","o","l","y","t","e","\"",","," ","\"","S","t","a","c","k","e","d"," ","c","e","l","l","\"","]">>,
      <<BACKTICK,BACKTICK,BACKTICK,"\n","[","\"","F","a","s","t"," ","c","h","a","r","g","i","n","g","\"","]","\n",BACKTICK,BACKTICK,BACKTICK>>,
      <<"[","]">>,
      <<"\"","p","a","t","e","n","t","a","b","l","e","\"">>,
      <<"n","u","l","l">>,
      <<"{","\"","s","i","m","i","l","a","r","i","t","y","_","s","c","o","r","e","\"",":"," ","5","5",".","0",","," ","\"","o","v","e","r","l","a","p","p","i","n","g","_","c","o","n","c","e","p","t","s","\"",":"," ","[","]",","," ","\"","k","e","y","_","d","i","f","f","e","r","e","n","c","e","s","\"",":"," ","[","]","}">>,
      <<"{","\"","i","s","P","a","t","e","n","t","a","b","l","e","\"",":"," ","t","r","u","e",",">>>>

\* What self.model.generate_text does when called: it returns one of the
\* texts, returns None, or raises.
BackendOutcomes ==
    {Return(PyStr(BackendTexts[i])) : i \in DOMAIN BackendTexts}
        \cup {Return(PyNone), Raise("ApiRequestFailure")}

\* No call: the backend outcome of a call that never reaches the backend.
NotCalled == [kind |-> "none", exc |-> "none", v |-> PyNone]

\* The disclosure texts given to the extractor.
DisclosureTexts ==
    <<<< >>,
      <<"A"," ","l","i","t","h","i","u","m"," ","b","a","t","t","e","r","y"," ","d","e","v","i","c","e"," ","w","i","t","h"," ","a"," ","s","o","l","i","d"," ","e","l","e","c","t","r","o","l","y","t","e",".">>,
      <<"W","e"," ","o","b","s","e","r","v","e","d"," ","a","n"," ","e","f","f","e","c","t","."," ","T","h","e","o","r","y"," ","o","n","l","y",".">>,
      <<"W","e"," ","c","o","m","p","a","r","e"," ","t","h","e"," ","i","n","n","o","v","a","t","i","o","n"," ","w","i","t","h"," ","s","i","m","i","l","a","r"," ","w","o","r","k",".">>,
      <<"I","n","t","r","o"," ","t","e","x","t",".",".","."," ","B","a","c","k","g","r","o","u","n","d",":"," ","a"," ","w","i","d","g","e","t"," ","w","i","t","h"," ","t","h","r","e","e"," ","s","c","r","e","w","s",".",".",".">>,
      <<" "," "," ">>,
      <<"x", SURROGATE>>>>

\* Keywords as the NLU service returns them.
KeywordSamples ==
    <<<<"b","a","t","t","e","r","y">>,
      <<"L","i","t","h","i","u","m"," ","B","a","t","t","e","r","y">>,
      <<"n","e","u","r","a","l"," ","n","e","t","w","o","r","k">>,
      <<"s","o","f","t","w","a","r","e">>,
      <<"S","o","r","t","i","n","g"," ","A","l","g","o","r","i","t","h","m">>,
      <<"m","e","t","a","l","l","i","c">>,
      <<"t","o","o","l","i","n","g">>>>

\* The lists of at most MaxKeywords keywords.
KeywordLists ==
    UNION {{[i \in 1..k |-> PyStr(KeywordSamples[ks[i]])] :
                ks \in [1..k -> DOMAIN KeywordSamples]} : k \in 0..MaxKeywords}

KeywordItem(kw) == PyDict(<<<<ExtractorText.text, kw>>>>)

\* The keyword lists the NLU service finds, by sample number.
NluKeywords == {<< >>, <<1, 2>>, <<5, 4>>, <<7>>}

\* What self.watsonx_nlu.analyze(text) does: it returns a mapping with a
\* keywords list of {text: ...} items, a mapping without keywords, a
\* mapping with an item that has no text, or it raises.
NluOutcomes ==
    {Return(PyDict(<<<<ExtractorText.keywords,
                       PyList([i \in DOMAIN ks |->
                                  KeywordItem(PyStr(KeywordSamples[ks[i]]))])>>>>)) :
         ks \in NluKeywords}
        \cup {Return(PyDict(<< >>)),
              Return(PyDict(<<<<ExtractorText.keywords,
                                PyList(<<PyDict(<<<<<<"r","e","l","e","v","a","n","c","e">>, PyFloat(9, 1)>>>>)>>)>>>>)),
              Raise("ApiException")}

\* The arguments of score_similarity: <<disclosure_innovations,
\* patent_title, patent_abstract>>.
SimilarityArguments ==
    {<<PyList(<< >>), <<"W","i","d","g","e","t">>, << >>>>,
     <<PyList(<<PyStr(<<"A"," ","n","e","w"," ","f","e","a","t","u","r","e">>), PyStr(<<"S","e","c","o","n","d"," ","i","n","n","o","v","a","t","i","o","n">>)>>),
       <<"W","i","d","g","e","t">>, <<"A"," ","w","i","d","g","e","t"," ","w","i","t","h"," ","a"," ","f","e","a","t","u","r","e",".">>>>,
     <<PyList(<<PyStr(<<"A"," ","n","e","w"," ","f","e","a","t","u","r","e">>)>>), <<"P","a","t","e","n","t","a","b","l","e"," ","w","i","d","g","e","t">>, <<"A"," ","w","i","d","g","e","t",".">>>>,
     <<PyList(<< >>), <<SURROGATE>>, << >>>>}

\* A run of n filler characters, to give a text its length.
Filler(n) == [i \in 1..n |-> "x"]

\* The texts given to _extract_background: the disclosure texts, texts whose
\* markers stand in another order than in the list, texts longer than the
\* slices taken, and texts with a character that lower() lengthens.
BackgroundTexts ==
    Range(DisclosureTexts) \cup
    {<<"T","h","e"," ","p","r","o","b","l","e","m",":"," ","n","o","i","s","e","."," ","B","A","C","K","G","R","O","U","N","D"," ","a","n","d"," ","p","r","i","o","r"," ","a","r","t",".">>,
     <<"O","v","e","r","v","i","e","w",","," ","t","h","e","n"," ","t","h","e"," ","p","r","o","b","l","e","m",".">>,
     <<"B","a","c","k","g","r","o","u","n","d">> \o Filler(487) \o <<" "," "," ","t","a","i","l">>,
     <<" ">> \o Filler(297) \o <<" "," ","y","y">>,
     <<CAP_I_DOT>> \o <<" ","B","a","c","k","g","r","o","u","n","d",":"," ","a"," ","w","i","d","g","e","t">>,
     <<CAP_I_DOT, CAP_I_DOT, CAP_I_DOT, CAP_I_DOT, CAP_I_DOT, CAP_I_DOT, CAP_I_DOT>>
         \o <<"p","r","o","b","l","e","m">>}

\* The texts given to _extract_innovations: the disclosure texts, texts
\* naming one of the stub's topics in another case, texts that bring the
\* prompt to 500 and to 1000 characters and more, and texts with a topic
\* word before, across and after the 1500th character.
InnovationTexts ==
    Range(DisclosureTexts) \cup
    {<<"O","u","r"," ","P","A","T","E","N","T","A","B","L","E"," ","i","d","e","a",".">>,
     <<"A"," ","S","i","m","i","l","a","r","i","t","y"," ","m","e","a","s","u","r","e",".">>,
     <<"O","n"," ","P","a","t","e","n","t","a","b","i","l","i","t","y",".">>,
     Filler(350),
     Filler(900),
     Filler(1493) \o <<"c","o","m","p","a","r","e">>,
     Filler(1496) \o <<"c","o","m","p","a","r","e">>,
     Filler(1500) \o <<" ","c","o","m","p","a","r","e">>}

----------------------------------------------------------------------------
(* The state machine: one ClaimExtractor, its WatsonxAI, and their caller *)

VARIABLES
    watsonx_ai,           \* the WatsonxAI object: api_key, project_id, model, use_stub
    pc,                   \* the caller: "idle", or "done" with a call's result in hand
    call,                 \* the call in hand: the operation and its inputs
    ret,                  \* its result
    backend_called,       \* whether it called self.model.generate_text
    last_backend_failed   \* whether the latest generate_text call failed

vars == <<watsonx_ai, pc, call, ret, backend_called, last_backend_failed>>

NoCall ==
    [op |-> "none", text |-> << >>, args |-> PyNone, nlu |-> NotCalled,
     backend |-> NotCalled, prompt_hash |-> 0, after_failure |-> FALSE]

\* ClaimExtractor.__init__ builds the WatsonxAI from the environment.
Init ==
    /\ \E has_api_key \in BOOLEAN, has_project_id \in BOOLEAN,
          WATSONX_AVAILABLE \in BOOLEAN, init_raises \in BOOLEAN :
          watsonx_ai = WatsonxAI_init(has_api_key, has_project_id,
                                      WATSONX_AVAILABLE, init_raises)
    /\ pc = "idle"
    /\ call = NoCall
    /\ ret = NotCalled
    /\ backend_called = FALSE
    /\ last_backend_failed = FALSE

\* generate_text's outcomes for a call that reaches generate: none when
\* generate takes the stub branch.
OutcomesFor(self) == IF StubMode(self) THEN {NotCalled} ELSE BackendOutcomes

BackendFailed(backend) == ~(backend.kind = "return" /\ IsStr(backend.v))

\* The digests for a call that reaches generate: the prompt is digested
\* only where generate runs the stub.
DigestsFor(self, backend) ==
    IF StubMode(self) \/ BackendFailed(backend) THEN Digests ELSE {0}

\* The caller makes a call and gets its result; the object is left as
\* self_after.  reached: whether the call got as far as generate.
Call(op, text, args, nlu, backend, prompt_hash, reached, result, self_after) ==
    /\ pc' = "done"
    /\ call' = [op |-> op, text |-> text, args |-> args, nlu |-> nlu,
                backend |-> IF reached THEN backend ELSE NotCalled,
                prompt_hash |-> prompt_hash, after_failure |-> last_backend_failed]
    /\ ret' = result
    /\ backend_called' = (reached /\ ~StubMode(watsonx_ai))
    /\ last_backend_failed' = IF reached /\ ~StubMode(watsonx_ai)
                              THEN BackendFailed(backend)
                              ELSE last_backend_failed
    /\ watsonx_ai' = self_after

\* WatsonxAI.generate(prompt)
Generate ==
    /\ pc = "idle"
    /\ \E prompt \in Prompts, backend \in OutcomesFor(watsonx_ai) :
         \E prompt_hash \in DigestsFor(watsonx_ai, backend) :
           Call("generate", prompt, PyNone, NotCalled, backend, prompt_hash, TRUE,
                WatsonxAI_generate(watsonx_ai, prompt, backend, prompt_hash),
                WatsonxAI_generate_self(watsonx_ai, backend))

\* WatsonxAI.generate_json(prompt)
GenerateJson ==
    /\ pc = "idle"
    /\ \E prompt \in Prompts, backend \in OutcomesFor(watsonx_ai) :
         \E prompt_hash \in DigestsFor(watsonx_ai, backend) :
           Call("generate_json", prompt, PyNone, NotCalled, backend, prompt_hash, TRUE,
                WatsonxAI_generate_json(watsonx_ai, prompt, backend, prompt_hash),
                WatsonxAI_generate_self(watsonx_ai, backend))

\* WatsonxAI.assess_patentability(text)
AssessPatentability ==
    /\ pc = "idle"
    /\ \E text \in Range(DisclosureTexts), backend \in OutcomesFor(watsonx_ai) :
         \E prompt_hash \in DigestsFor(watsonx_ai, backend) :
           Call("assess_patentability", text, PyNone, NotCalled, backend, prompt_hash, TRUE,
                WatsonxAI_assess_patentability(watsonx_ai, text, backend, prompt_hash),
                WatsonxAI_generate_self(watsonx_ai, backend))

\* WatsonxAI.score_similarity(disclosure_innovations, patent_title, patent_abstract)
ScoreSimilarity ==
    /\ pc = "idle"
    /\ \E a \in SimilarityArguments, backend \in OutcomesFor(watsonx_ai) :
         \E prompt_hash \in DigestsFor(watsonx_ai, backend) :
           Call("score_similarity", SimilarityPrompt(a[1], a[2], a[3]),
                PyList(<<a[1], PyStr(a[2]), PyStr(a[3])>>), NotCalled, backend, prompt_hash,
                TRUE,
                WatsonxAI_score_similarity(watsonx_ai, a[1], a[2], a[3], backend, prompt_hash),
                WatsonxAI_generate_self(watsonx_ai, backend))

\* ClaimExtractor.assess_patentability(text)
ExtractorAssessPatentability ==
    /\ pc = "idle"
    /\ \E text \in Range(DisclosureTexts), backend \in OutcomesFor(watsonx_ai) :
         \E prompt_hash \in DigestsFor(watsonx_ai, backend) :
           Call("extractor_assess_patentability", text, PyNone, NotCalled, backend,
                prompt_hash, TRUE,
                ClaimExtractor_assess_patentability(watsonx_ai, text, backend, prompt_hash),
                WatsonxAI_generate_self(watsonx_ai, backend))

\* ClaimExtractor.extract(text)
Extract ==
    /\ pc = "idle"
    /\ \E text \in Range(DisclosureTexts), nlu \in NluOutcomes,
          backend \in OutcomesFor(watsonx_ai) :
         \E prompt_hash \in DigestsFor(watsonx_ai, backend) :
           Call("extract", text, PyNone, nlu, backend, prompt_hash, nlu.kind = "return",
                ClaimExtractor_extract(watsonx_ai, text, nlu, backend, prompt_hash),
                IF nlu.kind = "return" THEN WatsonxAI_generate_self(watsonx_ai, backend)
                ELSE watsonx_ai)

\* ClaimExtractor._classify_ipc(keywords)
ClassifyIpc ==
    /\ pc = "idle"
    /\ \E keywords \in KeywordLists :
           Call("_classify_ipc", << >>, PyList(keywords), NotCalled, NotCalled, 0, FALSE,
                _classify_ipc(keywords), watsonx_ai)

\* ClaimExtractor._extract_background(text)
ExtractBackground ==
    /\ pc = "idle"
    /\ \E text \in BackgroundTexts :
           Call("_extract_background", text, PyNone, NotCalled, NotCalled, 0, FALSE,
                Return(PyStr(_extract_background(text))), watsonx_ai)

\* ClaimExtractor._extract_innovations(text, nlu_result)
ExtractInnovations ==
    /\ pc = "idle"
    /\ \E text \in InnovationTexts, backend \in OutcomesFor(watsonx_ai) :
         \E prompt_hash \in DigestsFor(watsonx_ai, backend) :
           Call("_extract_innovations", text, PyNone, NotCalled, backend, prompt_hash, TRUE,
                Return(_extract_innovations(watsonx_ai, text, backend, prompt_hash)),
                WatsonxAI_generate_self(watsonx_ai, backend))

\* The caller takes the result and is ready for the next call.
Done ==
    /\ pc = "done"
    /\ pc' = "idle"
    /\ call' = NoCall
    /\ ret' = NotCalled
    /\ backend_called' = FALSE
    /\ UNCHANGED <<watsonx_ai, last_backend_failed>>

Next ==
    \/ Generate
    \/ GenerateJson
    \/ AssessPatentability
    \/ ScoreSimilarity
    \/ ExtractorAssessPatentability
    \/ Extract
    \/ ClassifyIpc
    \/ ExtractBackground
    \/ ExtractInnovations
    \/ Done

Spec == Init /\ [][Next]_vars

----------------------------------------------------------------------------
(* Properties of WatsonxAI.generate and generate_json *)

\* C1: generate never raises and always returns a string: for every prompt
\* and every mode, the result is the backend's trimmed text or the result of
\* _stub_generate(prompt), and no exception reaches the caller.
\* (Refuted: a prompt that str.encode() rejects makes the stub raise.)
C1_GenerateNeverRaises ==
    (pc = "done" /\ call.op = "generate") =>
        /\ ret.kind = "return"
        /\ IsStr(ret.v)
        /\ IF backend_called /\ ~BackendFailed(call.backend)
           THEN ret.v.v = Strip(call.backend.v.v)
           ELSE ret = _stub_generate(call.text, call.prompt_hash)

\* C2: the backend mode of the object (use_stub and model) is the one the
\* constructor fixed, whatever generate, generate_json, assess_patentability
\* and score_similarity calls are made: no step changes it; a call whose
\* backend call failed answers with the stub's response for that call; and
\* the call after a failed one calls the backend again.
C2_ModeFixedByConstructor ==
    [][/\ watsonx_ai'.use_stub = watsonx_ai.use_stub
       /\ watsonx_ai'.model = watsonx_ai.model
       /\ (call'.op = "generate" /\ backend_called' /\ BackendFailed(call'.backend))
              => ret' = _stub_generate(call'.text, call'.prompt_hash)
       /\ (/\ last_backend_failed
           /\ call'.op \in {"generate", "generate_json", "assess_patentability",
                            "score_similarity"})
              => backend_called']_vars

\* A generate call that follows a failed backend call and calls the real
\* backend again.
C2_Witness ==
    /\ pc = "done"
    /\ call.op = "generate"
    /\ call.after_failure
    /\ backend_called
    /\ ~watsonx_ai.use_stub
    /\ watsonx_ai.model = "ModelInference"

\* C6: generate_json returns the value parsed from generate's output with
\* every fence marker removed and the rest trimmed (the fenced {"a":1} gives
\* the mapping {"a": 1}); when the cleaned text is no valid JSON the parse
\* error reaches the caller; and no other error of the client does.
\* (Refuted in its last part: the stub's UnicodeEncodeError of C1 reaches the
\* caller of generate_json too.)
C6_GenerateJsonOnlyParseErrors ==
    (pc = "done" /\ call.op = "generate_json") =>
        LET response == WatsonxAI_generate(watsonx_ai, call.text, call.backend,
                                           call.prompt_hash)
            cleaned == Strip(Remove(Remove(response.v.v, <<BACKTICK,BACKTICK,BACKTICK,"j","s","o","n">>), <<BACKTICK,BACKTICK,BACKTICK>>))
        IN  /\ response.kind = "return" => ret = JsonLoads(cleaned)
            /\ ret.kind = "raise" => ret.exc = "JSONDecodeError"
            /\ (response.kind = "return" /\ response.v.v = <<BACKTICK,BACKTICK,BACKTICK,"j","s","o","n","\n","{","\"","a","\"",":","1","}","\n",BACKTICK,BACKTICK,BACKTICK>>)
                   => ret = Return(PyDict(<<<<<<"a">>, PyInt(1)>>>>))

----------------------------------------------------------------------------
(* Properties of WatsonxAI._stub_generate *)

----------------------------------------------------------------------------
(* Properties of ClaimExtractor *)

\* C3: ClaimExtractor.assess_patentability never raises and never returns a
\* confidence outside [0,100], whatever the text and whatever generation
\* does.
\* (Refuted: the confidence of a parsed object is passed on as it is.)
C3_ConfidenceWithinRange ==
    (pc = "done" /\ call.op = "extractor_assess_patentability") =>
        /\ ret.kind = "return"
        /\ IsDict(ret.v)
        /\ DictHas(ret.v, <<"c","o","n","f","i","d","e","n","c","e">>)
        /\ NumberWithin(DictAt(ret.v, <<"c","o","n","f","i","d","e","n","c","e">>), 0, 100)

\* C5: ClaimExtractor.assess_patentability fails open: when generation or
\* parsing raises it returns exactly isPatentable = true, confidence = 60,
\* missingElements = [], recommendations = ["Manual review recommended -
\* automated assessment failed"]; and a field the parsed object lacks takes
\* its default (true, 50, [], []), a field it has is passed on.
C5_FailsOpen ==
    (pc = "done" /\ call.op = "extractor_assess_patentability") =>
        LET response == WatsonxAI_generate(watsonx_ai, PatentabilityPrompt(call.text),
                                           call.backend, call.prompt_hash)
            parsed == IF response.kind = "raise" THEN response
                      ELSE JsonLoads(CleanResponse(response.v.v))
            field(name, default) ==
                DictAt(ret.v, name) = IF DictHas(parsed.v, name) THEN DictAt(parsed.v, name)
                                      ELSE default
        IN  /\ ret.kind = "return"
            /\ parsed.kind = "raise" =>
                   ret.v = PyDict(<<
                       <<<<"i","s","P","a","t","e","n","t","a","b","l","e">>, PyBool(TRUE)>>,
                       <<<<"c","o","n","f","i","d","e","n","c","e">>, PyInt(60)>>,
                       <<<<"m","i","s","s","i","n","g","E","l","e","m","e","n","t","s">>, PyList(<< >>)>>,
                       <<<<"r","e","c","o","m","m","e","n","d","a","t","i","o","n","s">>,
                         PyList(<<PyStr(<<"M","a","n","u","a","l"," ","r","e","v","i","e","w"," ","r","e","c","o","m","m","e","n","d","e","d"," ","-"," ","a","u","t","o","m","a","t","e","d"," ","a","s","s","e","s","s","m","e","n","t"," ","f","a","i","l","e","d">>)>>)>> >>)
            /\ (parsed.kind = "return" /\ IsDict(parsed.v)) =>
                   /\ field(<<"i","s","P","a","t","e","n","t","a","b","l","e">>, PyBool(TRUE))
                   /\ field(<<"c","o","n","f","i","d","e","n","c","e">>, PyInt(50))
                   /\ field(<<"m","i","s","s","i","n","g","E","l","e","m","e","n","t","s">>, PyList(<< >>))
                   /\ field(<<"r","e","c","o","m","m","e","n","d","a","t","i","o","n","s">>, PyList(<< >>))

\* The backend returned text that is no JSON, and the assessment is the
\* fallback.
C5_Witness ==
    /\ pc = "done" /\ call.op = "extractor_assess_patentability"
    /\ backend_called
    /\ ~BackendFailed(call.backend)
    /\ JsonLoads(CleanResponse(Strip(call.backend.v.v))).kind = "raise"
    /\ DictAt(ret.v, <<"i","s","P","a","t","e","n","t","a","b","l","e">>) = PyBool(TRUE)
    /\ DictAt(ret.v, <<"c","o","n","f","i","d","e","n","c","e">>) = PyInt(60)

\* C4: extract never returns an empty background, innovations, keywords or
\* ipcClassifications, whatever the NLU service and generation do: it
\* returns a result with all four fields non-empty.
\* (Refuted: an exception of analyze, or a keyword item without text,
\* leaves extract as an exception.)
C4_ExtractFieldsNeverEmpty ==
    (pc = "done" /\ call.op = "extract") =>
        /\ ret.kind = "return"
        /\ IsDict(ret.v)
        /\ \A name \in {<<"b","a","c","k","g","r","o","u","n","d">>, <<"i","n","n","o","v","a","t","i","o","n","s">>, <<"k","e","y","w","o","r","d","s">>,
                        <<"i","p","c","C","l","a","s","s","i","f","i","c","a","t","i","o","n","s">>} :
               DictHas(ret.v, name) /\ Truthy(DictAt(ret.v, name))

\* C8: _classify_ipc(keywords) returns, sorted and without duplicates,
\* exactly the union of the codes of every table term that is a substring of
\* some lowercased keyword, and exactly ["G06F"] when no term matches; so
\* [] gives the default code, ["battery"] the battery code alone, and
\* ["Lithium Battery"] the lithium and the battery codes; the result is
\* never empty.
C8_ClassifyIpcUnionOfMatches ==
    (pc = "done" /\ call.op = "_classify_ipc") =>
        LET keywords == call.args.v
            matching == {j \in DOMAIN ipc_mapping :
                            \E i \in DOMAIN keywords :
                                Contains(Lower(keywords[i].v), ipc_mapping[j][1])}
            union == UNION {Range(ipc_mapping[j][2]) : j \in matching}
            codes == ret.v.v
        IN  /\ ret.kind = "return"
            /\ IsList(ret.v)
            /\ \A i \in DOMAIN codes : IsStr(codes[i])
            /\ {codes[i].v : i \in DOMAIN codes}
                   = IF matching = {} THEN {<<"G","0","6","F">>} ELSE union
            /\ \A i \in 1..(Len(codes) - 1) : StrLess(codes[i].v, codes[i + 1].v)
            /\ codes # << >>
            /\ keywords = << >> => codes = <<PyStr(<<"G","0","6","F">>)>>
            /\ keywords = <<PyStr(<<"b","a","t","t","e","r","y">>)>> => codes = <<PyStr(<<"H","0","1","M","1","0","/","0","5">>)>>
            /\ keywords = <<PyStr(<<"L","i","t","h","i","u","m"," ","B","a","t","t","e","r","y">>)>>
                   => codes = <<PyStr(<<"H","0","1","M","1","0","/","0","5">>), PyStr(<<"H","0","1","M","1","0","/","0","5","2","5">>)>>

\* One keyword that two table terms match, classified as both.
C8_Witness ==
    /\ pc = "done" /\ call.op = "_classify_ipc"
    /\ call.args.v = <<PyStr(<<"L","i","t","h","i","u","m"," ","B","a","t","t","e","r","y">>)>>
    /\ ret = Return(PyList(<<PyStr(<<"H","0","1","M","1","0","/","0","5">>), PyStr(<<"H","0","1","M","1","0","/","0","5","2","5">>)>>))

\* C9, as stated: extract("") with the client in stub mode and no keywords
\* from the NLU service returns background = "No disclosure text provided",
\* innovations = ["Innovation extraction failed - manual review needed"],
\* keywords = ["disclosure", "analysis"], ipcClassifications = ["G06F"].
\* (Refuted: the stub answers the innovation prompt with three placeholders,
\* a valid list, so the failure placeholder is not used.)
C9_EmptyDisclosureFailurePlaceholder ==
    (/\ pc = "done" /\ call.op = "extract"
     /\ call.text = << >>
     /\ StubMode(watsonx_ai)
     /\ call.nlu.kind = "return" /\ IsDict(call.nlu.v)
     /\ DictGet(call.nlu.v, <<"k","e","y","w","o","r","d","s">>, PyList(<< >>)) = PyList(<< >>)) =>
        /\ ret.kind = "return"
        /\ DictAt(ret.v, <<"b","a","c","k","g","r","o","u","n","d">>) = PyStr(<<"N","o"," ","d","i","s","c","l","o","s","u","r","e"," ","t","e","x","t"," ","p","r","o","v","i","d","e","d">>)
        /\ DictAt(ret.v, <<"i","n","n","o","v","a","t","i","o","n","s">>)
               = PyList(<<PyStr(<<"I","n","n","o","v","a","t","i","o","n"," ","e","x","t","r","a","c","t","i","o","n"," ","f","a","i","l","e","d"," ","-"," ","m","a","n","u","a","l"," ","r","e","v","i","e","w"," ","n","e","e","d","e","d">>)>>)
        /\ DictAt(ret.v, <<"k","e","y","w","o","r","d","s">>)
               = PyList(<<PyStr(<<"d","i","s","c","l","o","s","u","r","e">>), PyStr(<<"a","n","a","l","y","s","i","s">>)>>)
        /\ DictAt(ret.v, <<"i","p","c","C","l","a","s","s","i","f","i","c","a","t","i","o","n","s">>) = PyList(<<PyStr(<<"G","0","6","F">>)>>)

\* C9, amended: extract("") with the client in stub mode and no keywords
\* from the NLU service returns background = "No disclosure text provided",
\* innovations = the stub's three placeholders ["Technical innovation 1",
\* "Technical innovation 2", "Technical innovation 3"], keywords =
\* ["disclosure", "analysis"], ipcClassifications = ["G06F"].
C9_EmptyDisclosureStubPlaceholders ==
    (/\ pc = "done" /\ call.op = "extract"
     /\ call.text = << >>
     /\ StubMode(watsonx_ai)
     /\ call.nlu.kind = "return" /\ IsDict(call.nlu.v)
     /\ DictGet(call.nlu.v, <<"k","e","y","w","o","r","d","s">>, PyList(<< >>)) = PyList(<< >>)) =>
        /\ ret.kind = "return"
        /\ ret.v.v = <<
               <<<<"b","a","c","k","g","r","o","u","n","d">>, PyStr(<<"N","o"," ","d","i","s","c","l","o","s","u","r","e"," ","t","e","x","t"," ","p","r","o","v","i","d","e","d">>)>>,
               <<<<"i","n","n","o","v","a","t","i","o","n","s">>,
                 PyList(<<PyStr(<<"T","e","c","h","n","i","c","a","l"," ","i","n","n","o","v","a","t","i","o","n"," ","1">>),
                          PyStr(<<"T","e","c","h","n","i","c","a","l"," ","i","n","n","o","v","a","t","i","o","n"," ","2">>),
                          PyStr(<<"T","e","c","h","n","i","c","a","l"," ","i","n","n","o","v","a","t","i","o","n"," ","3">>)>>)>>,
               <<<<"k","e","y","w","o","r","d","s">>, PyList(<<PyStr(<<"d","i","s","c","l","o","s","u","r","e">>), PyStr(<<"a","n","a","l","y","s","i","s">>)>>)>>,
               <<<<"i","p","c","C","l","a","s","s","i","f","i","c","a","t","i","o","n","s">>, PyList(<<PyStr(<<"G","0","6","F">>)>>)>> >>

\* extract("") has returned, in stub mode, with no keywords from the NLU
\* service.
C9_Witness ==
    /\ pc = "done" /\ call.op = "extract"
    /\ call.text = << >>
    /\ StubMode(watsonx_ai)
    /\ call.nlu = Return(PyDict(<< >>))
    /\ ret.kind = "return"
    /\ Len(DictAt(ret.v, <<"i","n","n","o","v","a","t","i","o","n","s">>).v) = 3

----------------------------------------------------------------------------
(* Properties of ClaimExtractor._extract_background and _extract_innovations *)

\* C11: _extract_background never returns an empty string; for a non-empty
\* text in which a marker of the list occurs (in any case), it returns the
\* trimmed slice of at most 500 characters of the text that starts where the
\* first marker of the list, in list order, first occurs in the text; with
\* no marker it returns the first 300 characters trimmed, and a fixed
\* placeholder when that is empty.
\* (Refuted: the start is the marker's index in text.lower(), which is not
\* its index in the text once lower() has lengthened what precedes it.)
C11_BackgroundFromFirstMarker ==
    (pc = "done" /\ call.op = "_extract_background") =>
        LET text == call.text
            occurs(p) == {i \in 1..(Len(text) - Len(p) + 1) :
                              Lower(SubSeq(text, i, i + Len(p) - 1)) = p}
            found == {k \in DOMAIN patterns : occurs(patterns[k]) # {}}
            start == Min(occurs(patterns[Min(found)])) - 1
            head == Strip(Slice(text, 0, 300))
        IN  /\ ret.kind = "return"
            /\ IsStr(ret.v)
            /\ ret.v.v # << >>
            /\ (text # << >> /\ found # {})
                   => ret.v.v = Strip(Slice(text, start, start + 500))
            /\ found = {}
                   => IF head # << >> THEN ret.v.v = head
                      ELSE ret.v.v \in {ExtractorText.no_text,
                                        ExtractorText.technical_disclosure}

\* C12: with a stub-mode client the patentability gate never rejects: for
\* every disclosure text, ClaimExtractor.assess_patentability and
\* WatsonxAI.assess_patentability return isPatentable = true with
\* missingElements = [] and an integer confidence in [60,94].
\* (Refuted for WatsonxAI.assess_patentability: the stub's
\* UnicodeEncodeError of C1 reaches its caller and nothing is returned.)
C12_StubGateNeverRejects ==
    (/\ pc = "done"
     /\ call.op \in {"assess_patentability", "extractor_assess_patentability"}
     /\ watsonx_ai.use_stub) =>
        /\ ret.kind = "return"
        /\ IsDict(ret.v)
        /\ DictHas(ret.v, <<"i","s","P","a","t","e","n","t","a","b","l","e">>)
        /\ DictAt(ret.v, <<"i","s","P","a","t","e","n","t","a","b","l","e">>) = PyBool(TRUE)
        /\ DictHas(ret.v, <<"m","i","s","s","i","n","g","E","l","e","m","e","n","t","s">>)
        /\ DictAt(ret.v, <<"m","i","s","s","i","n","g","E","l","e","m","e","n","t","s">>) = PyList(<< >>)
        /\ DictHas(ret.v, <<"c","o","n","f","i","d","e","n","c","e">>)
        /\ DictAt(ret.v, <<"c","o","n","f","i","d","e","n","c","e">>).t = "int"
        /\ NumberWithin(DictAt(ret.v, <<"c","o","n","f","i","d","e","n","c","e">>), 60, 94)

\* C13: with a stub-mode client the words of the disclosure decide the
\* shape of the reply to the innovation prompt: for every text,
\* _extract_innovations returns ["Technical innovation 1", ...,
\* "Technical innovation n"] with n = min(5, 3 + len(prompt) div 500) if and
\* only if the first 1500 characters of the text hold none of
\* "patentability", "patentable", "similarity", "compare" in any case, and
\* otherwise the one-item failure placeholder.
\* (Refuted: for a text that str.encode() rejects the stub raises, by the
\* fault of C1, and the placeholder is returned whatever the words are.)
C13_WordsDecideInnovations ==
    (pc = "done" /\ call.op = "_extract_innovations" /\ watsonx_ai.use_stub) =>
        LET shown == Lower(Slice(call.text, 0, 1500))
            topics == {<<"p","a","t","e","n","t","a","b","i","l","i","t","y">>, <<"p","a","t","e","n","t","a","b","l","e">>, <<"s","i","m","i","l","a","r","i","t","y">>, <<"c","o","m","p","a","r","e">>}
            free == \A w \in topics : ~Contains(shown, w)
            n == MinInt(5, 3 + (Len(InnovationPrompt(call.text)) \div 500))
        IN  /\ ret.kind = "return"
            /\ ret.v = IF free
                       THEN PyList([i \in 1..n |->
                                PyStr(<<"T","e","c","h","n","i","c","a","l"," ","i","n","n","o","v","a","t","i","o","n"," ">> \o NatToStr(i))])
                       ELSE PyList(<<PyStr(<<"I","n","n","o","v","a","t","i","o","n"," ","e","x","t","r","a","c","t","i","o","n"," ","f","a","i","l","e","d"," ","-"," ","m","a","n","u","a","l"," ","r","e","v","i","e","w"," ","n","e","e","d","e","d">>)>>)

====
